---- MODULE Spec2Model ----
(***************************************************************************)
(* State-machine model of the Identity unit of @synet/identity             *)
(* (src/src/identity-types.ts, class Identity extends Unit<IdentityProps>) *)
(* and of the Result envelope (src/src/result.ts).                         *)
(*                                                                         *)
(* JavaScript values are modelled as follows.  An object is a function     *)
(* whose DOMAIN is the set of its defined fields: a field that is absent   *)
(* or undefined is not in the DOMAIN.  Strings are strings, a Date is a    *)
(* natural number, a metadata map is a set of <<key, value>> pairs.  The   *)
(* outcome of a call into an external package (@synet/keys, @synet/did,    *)
(* @synet/credential) is a record with st in {"ok", "null", "throw"}.      *)
(***************************************************************************)
EXTENDS Integers, Sequences, FiniteSets, TLC

VARIABLES identities, gen, out, now

vars == <<identities, gen, out, now>>

(***************************************************************************)
(* Bounds of the model.                                                    *)
(***************************************************************************)
MaxInst == 1
MaxClock == 1
MaxPair == 2

(***************************************************************************)
(* Sample inputs.                                                          *)
(***************************************************************************)
Aliases == {"", "alice"}
Data == {"d1", "d2"}
GoodPub == {"a1", "b2"}
\* the keys generateKeyPair yields when it succeeds
FreshPub == {"a1"}
\* Key material on which one step of the external packages fails; the name
\* of the sample is the step and the way it fails.
FaultyPub ==
  {"pem-throw", "pem-null", "pem-throw-raw", "signer-null", "signer-throw",
   "key-null", "pubhex-empty", "did-null", "did-throw", "didstring-empty",
   "credlearn-throw"}
FaultyPriv == {"privpem-throw", "privpem-null"}
PrivOf(pub) == pub \o "-priv"
AllPub == GoodPub \cup FaultyPub
AllPriv == {PrivOf(p) : p \in AllPub} \cup FaultyPriv

(***************************************************************************)
(* Result envelope (src/src/result.ts).  _value and _error are optional    *)
(* constructor parameters: a field that was not supplied is not in the     *)
(* DOMAIN.  An Error is modelled by its message.                           *)
(***************************************************************************)
Success(v) == [_isSuccess |-> TRUE, _value |-> v]

FailMsg(message) == [_isSuccess |-> FALSE, _error |-> [message |-> message]]

FailCause(message, cause) ==
  [_isSuccess |-> FALSE, _error |-> [message |-> message, cause |-> cause]]

isSuccess(r) == r._isSuccess

isFailure(r) == ~ r._isSuccess

errorMessage(r) == r._error.message

NoFields == [f \in {} |-> ""]

\* Result.fail(message, cause?, ...data): cause is << >> when it is not
\* given and <<cause>> when it is; data is the sequence of the rest
fail(message, cause, data) ==
  [_isSuccess |-> FALSE,
   _error |-> [message |-> message]
                @@ (IF cause = << >> THEN NoFields ELSE [cause |-> cause[1]])
                @@ (IF data = << >> THEN NoFields ELSE [data |-> data])]

\* mutant: reading value never throws
value_Unchecked(r) ==
  IF "_value" \in DOMAIN r
    THEN [st |-> "ok", v |-> r._value]
    ELSE [st |-> "null"]

\* get value(): throws on a failure
value(r) ==
  IF ~ isSuccess(r)
    THEN [st |-> "throw", isError |-> TRUE,
          message |-> "Cannot get value from a failed result"]
    ELSE [st |-> "ok", v |-> r._value]

\* get error(), get errorCause(): undefined is the outcome "null"
error(r) ==
  IF "_error" \in DOMAIN r THEN [st |-> "ok", v |-> r._error]
                            ELSE [st |-> "null"]

errorCause(r) ==
  IF "_error" \in DOMAIN r /\ "cause" \in DOMAIN r._error
    THEN [st |-> "ok", v |-> r._error.cause]
    ELSE [st |-> "null"]

\* mutant: only an Error is caught, any other thrown value escapes
Caught_ErrorsOnly(thrown) ==
  IF thrown.isError
    THEN [_isSuccess |-> FALSE,
          _error |-> [message |-> thrown.message, cause |-> thrown.message]]
    ELSE [escaped |-> thrown]

\* The catch clauses of create and generate: a thrown outcome becomes
\* Result.fail(error.message, error) when the thrown value is an Error and
\* Result.fail("Unknown error occurred") otherwise.
Caught(thrown) ==
  IF thrown.isError
    THEN FailCause(thrown.message, thrown.message)
    ELSE FailMsg("Unknown error occurred")

(***************************************************************************)
(* External packages, as deterministic functions of the key material.      *)
(***************************************************************************)
Ok(v) == [st |-> "ok", v |-> v]
Null == [st |-> "null"]
Throw(message) == [st |-> "throw", isError |-> TRUE, message |-> message]
ThrowRaw == [st |-> "throw", isError |-> FALSE, message |-> ""]

\* @synet/keys hexToPem(hex, "ed25519")
hexToPem(hex) ==
  CASE hex = "pem-throw" -> Throw("Invalid public key hex")
    [] hex = "pem-throw-raw" -> ThrowRaw
    [] hex = "pem-null" -> Null
    [] OTHER -> Ok("pem:" \o hex)

\* @synet/keys hexPrivateKeyToPem(hex)
hexPrivateKeyToPem(hex) ==
  CASE hex = "privpem-throw" -> Throw("Invalid private key hex")
    [] hex = "privpem-null" -> Null
    [] OTHER -> Ok("pem:" \o hex)

\* the inverse of hexToPem on the public keys of the samples
pemToHex(pem) == CHOOSE hex \in AllPub : pem = "pem:" \o hex

\* @synet/keys Signer.create({privateKeyPEM, publicKeyPEM, keyType})
SignerCreate(privateKeyPEM, publicKeyPEM) ==
  CASE publicKeyPEM = "pem:signer-throw" -> Throw("Unsupported key")
    [] publicKeyPEM = "pem:signer-null" -> Null
    [] OTHER -> Ok([privateKeyPEM |-> privateKeyPEM,
                    publicKeyPEM |-> publicKeyPEM])

\* signer.createKey()
createKey(signer) ==
  IF signer.publicKeyPEM = "pem:key-null"
    THEN Null
    ELSE Ok([publicKeyHex |-> pemToHex(signer.publicKeyPEM),
             signer |-> signer])

\* signer.getPublicKeyHex()
getPublicKeyHex(signer) ==
  IF signer.publicKeyPEM = "pem:pubhex-empty"
    THEN Ok("")
    ELSE Ok(pemToHex(signer.publicKeyPEM))

\* @synet/did DID.create({publicKeyHex, keyType: "Ed25519"})
DIDCreate(publicKeyHex) ==
  CASE publicKeyHex = "did-throw" -> Throw("Invalid DID key")
    [] publicKeyHex = "did-null" -> Null
    [] OTHER -> Ok([publicKeyHex |-> publicKeyHex, keyType |-> "Ed25519"])

\* didUnit.generateKey()
generateKey(didUnit) ==
  IF didUnit.publicKeyHex = "didstring-empty"
    THEN Ok("")
    ELSE Ok("did:key:" \o didUnit.publicKeyHex)

\* signer.sign(data), an Ed25519 signature: a function of key and data
SignerSign(signer, data) == "sig:" \o signer.privateKeyPEM \o ":" \o data

\* signer.verify(data, signature): the signature is the one the private
\* key of this public key makes over data
SignerVerify(signer, data, signature) ==
  signature = "sig:pem:" \o PrivOf(pemToHex(signer.publicKeyPEM)) \o ":" \o data

\* Credential.create() followed by credentialUnit.learn([key.teach()])
CredentialCreate(key) ==
  IF key.publicKeyHex = "credlearn-throw"
    THEN Throw("Cannot learn from key")
    ELSE Ok([signingKey |-> key])

\* credentialUnit.issueCredential(subject, type, issuer), an asynchronous
\* call: whether it resolves to a success, resolves to a failure or rejects
\* is the environment's choice
IssueEnv == {"ok", "fail", "throw", "throw-raw"}

CredentialIssue(credentialUnit, subject, type, issuer, env) ==
  LET k == credentialUnit.signingKey IN
  CASE env = "throw" -> Throw("Signing failed")
    [] env = "throw-raw" -> ThrowRaw
    [] env = "fail" -> Ok(FailMsg("No signing capability"))
    [] OTHER ->
        Ok(Success([issuer |-> issuer,
                    type |-> type,
                    credentialSubject |-> subject,
                    proof |-> SignerSign(k.signer, issuer \o "/" \o type)]))

(***************************************************************************)
(* The capability registry of the Unit base class (@synet/unit), as the    *)
(* Identity uses it: _capabilities is a Map from "<unitId>.<capability>"   *)
(* to an implementation.  An implementation is named by the unit whose     *)
(* closure it is.                                                          *)
(***************************************************************************)
CapName(unitId, cap) == unitId \o "." \o cap

\* this.can(name)
can(I, name) == name \in DOMAIN I.caps

\* mutant: a name already in the registry keeps its implementation
learnOne_KeepFirst(caps, contract) ==
  LET new == {unitId_cap \in
                {contract.unitId \o "." \o c : c \in DOMAIN contract.capabilities} :
                unitId_cap \notin DOMAIN caps}
      capOf(n) == CHOOSE c \in DOMAIN contract.capabilities :
                    n = contract.unitId \o "." \o c
  IN [n \in DOMAIN caps \cup new |->
        IF n \in new THEN contract.capabilities[capOf(n)] ELSE caps[n]]

\* this.learn(contracts) for one contract: Map.set of every capability of
\* the contract under its namespaced name
learnOne(caps, contract) ==
  LET new == {CapName(contract.unitId, c) : c \in DOMAIN contract.capabilities}
      capOf(n) == CHOOSE c \in DOMAIN contract.capabilities :
                    n = CapName(contract.unitId, c)
  IN [n \in DOMAIN caps \cup new |->
        IF n \in new THEN contract.capabilities[capOf(n)] ELSE caps[n]]

RECURSIVE learn(_, _)
learn(caps, contracts) ==
  IF contracts = << >>
    THEN caps
    ELSE learn(learnOne(caps, Head(contracts)), Tail(contracts))

\* signer.teach(), key.teach(), credentialUnit.teach()
SignerTeach(signer) ==
  [unitId |-> "signer",
   capabilities |-> [c \in {"sign", "verify", "getPublicKey"} |->
                       [kind |-> "signer", signer |-> signer]]]

KeyTeach(key) ==
  [unitId |-> "key",
   capabilities |-> [c \in {"getPublicKey", "verify"} |->
                       [kind |-> "key", signer |-> key.signer]]]

CredentialTeach(credentialUnit) ==
  [unitId |-> "credential",
   capabilities |-> [c \in {"issueCredential", "verifyCredential"} |->
                       [kind |-> "credential",
                        credentialUnit |-> credentialUnit]]]

NoCaps == [n \in {} |-> [kind |-> "none"]]

(***************************************************************************)
(* Identity.create(config), lines 651-731.  The value is the Result, the   *)
(* Identity built (when there is one) and the calls made, in order.        *)
(***************************************************************************)
Falsy(c, f) == f \notin DOMAIN c \/ c[f] = ""

OrElse(c, f, default) == IF Falsy(c, f) THEN default ELSE c[f]

\* for a field that holds an object: any object is truthy
OrElseObj(c, f, default) == IF f \in DOMAIN c THEN c[f] ELSE default

EmptyCredential == [n \in {} |-> ""]

Required == {"alias", "did", "publicKeyHex", "privateKeyHex"}

\* mutant: the gate forgets the alias
ValidationFails_NoAlias(config) ==
  \/ "privateKeyHex" \notin DOMAIN config \/ config.privateKeyHex = ""
  \/ "publicKeyHex" \notin DOMAIN config \/ config.publicKeyHex = ""
  \/ "did" \notin DOMAIN config \/ config.did = ""

ValidationFails(config) ==
  \/ Falsy(config, "privateKeyHex")
  \/ Falsy(config, "publicKeyHex")
  \/ Falsy(config, "did")
  \/ Falsy(config, "alias")

\* mutant: the message names the first field found missing
ValidationMessage_PerField(config) ==
  CASE "privateKeyHex" \notin DOMAIN config -> "Required field: privateKeyHex"
    [] "publicKeyHex" \notin DOMAIN config -> "Required field: publicKeyHex"
    [] "did" \notin DOMAIN config -> "Required field: did"
    [] OTHER -> "Required field: alias"

ValidationMessage(config) ==
  "Required fields: alias, publicKeyHex, privateKeyHex, did"

Done(result, calls) == [result |-> result, built |-> FALSE, calls |-> calls]

\* mutant: a configuration without credential gets a self-issued one
createProps_Issues(config, clock, didUnit, signer, key, credentialUnit) ==
  [dna |-> [id |-> "identity", version |-> "1.0.0"],
   alias |-> OrElse(config, "alias", "unknown"),
   did |-> OrElse(config, "did", "did:key:unknown"),
   kid |-> OrElse(config, "kid", config.publicKeyHex),
   publicKeyHex |-> config.publicKeyHex,
   privateKeyHex |-> config.privateKeyHex,
   provider |-> OrElse(config, "provider", "did:key"),
   credential |->
     IF "credential" \in DOMAIN config
       THEN config.credential
       ELSE [issuer |-> config.did, type |-> "IdentityCredential",
             credentialSubject |-> [holder |-> [id |-> config.did,
                                                name |-> config.alias]],
             proof |-> SignerSign(signer, config.did)],
   metadata |-> OrElseObj(config, "metadata", {}),
   createdAt |-> OrElseObj(config, "createdAt", clock),
   didUnit |-> didUnit,
   signerUnit |-> signer,
   keyUnit |-> key,
   credentialUnit |-> credentialUnit]

\* mutant: the DID is derived from the public key
createProps_DerivedDid(config, clock, didUnit, signer, key, credentialUnit) ==
  [dna |-> [id |-> "identity", version |-> "1.0.0"],
   alias |-> OrElse(config, "alias", "unknown"),
   did |-> "did:key:" \o didUnit.publicKeyHex,
   kid |-> OrElse(config, "kid", config.publicKeyHex),
   publicKeyHex |-> config.publicKeyHex,
   privateKeyHex |-> config.privateKeyHex,
   provider |-> OrElse(config, "provider", "did:key"),
   credential |-> OrElseObj(config, "credential", EmptyCredential),
   metadata |-> OrElseObj(config, "metadata", {}),
   createdAt |-> OrElseObj(config, "createdAt", clock),
   didUnit |-> didUnit,
   signerUnit |-> signer,
   keyUnit |-> key,
   credentialUnit |-> credentialUnit]

createProps(config, clock, didUnit, signer, key, credentialUnit) ==
  [dna |-> [id |-> "identity", version |-> "1.0.0"],
   alias |-> OrElse(config, "alias", "unknown"),
   did |-> OrElse(config, "did", "did:key:unknown"),
   kid |-> OrElse(config, "kid", config.publicKeyHex),
   publicKeyHex |-> config.publicKeyHex,
   privateKeyHex |-> config.privateKeyHex,
   provider |-> OrElse(config, "provider", "did:key"),
   credential |-> OrElseObj(config, "credential", EmptyCredential),
   metadata |-> OrElseObj(config, "metadata", {}),
   createdAt |-> OrElseObj(config, "createdAt", clock),
   didUnit |-> didUnit,
   signerUnit |-> signer,
   keyUnit |-> key,
   credentialUnit |-> credentialUnit]

create(config, clock) ==
  IF ValidationFails(config)
    THEN Done(FailMsg(ValidationMessage(config)), << >>)
  ELSE
  LET priv == hexPrivateKeyToPem(config.privateKeyHex)
      c1 == <<"hexPrivateKeyToPem">>
  IN
  IF priv.st = "throw" THEN Done(Caught(priv), c1) ELSE
  LET pub == hexToPem(config.publicKeyHex)
      c2 == Append(c1, "hexToPem")
  IN
  IF pub.st = "throw" THEN Done(Caught(pub), c2) ELSE
  IF priv.st = "null" \/ pub.st = "null"
    THEN Done(Caught(Throw("Failed to convert keys to PEM format")), c2)
  ELSE
  LET signer == SignerCreate(priv.v, pub.v)
      c3 == Append(c2, "Signer.create")
  IN
  IF signer.st = "throw" THEN Done(Caught(signer), c3) ELSE
  IF signer.st = "null"
    THEN Done(FailMsg("Failed to create signer from key material"), c3)
  ELSE
  LET key == createKey(signer.v)
      c4 == Append(c3, "createKey")
  IN
  IF key.st = "null"
    THEN Done(FailMsg("Failed to create key from signer"), c4)
  ELSE
  LET didUnit == DIDCreate(config.publicKeyHex)
      c5 == Append(c4, "DID.create")
  IN
  IF didUnit.st = "throw" THEN Done(Caught(didUnit), c5) ELSE
  IF didUnit.st = "null" THEN Done(FailMsg("Failed to reconstruct DID"), c5)
  ELSE
  LET cred == CredentialCreate(key.v)
      c6 == Append(c5, "Credential.create")
  IN
  IF cred.st = "throw" THEN Done(Caught(cred), c6) ELSE
  LET identity ==
        [props |-> createProps(config, clock, didUnit.v, signer.v, key.v,
                               cred.v),
         caps |-> NoCaps,
         origin |-> "create"]
  IN [result |-> Success(identity),
      built |-> TRUE,
      calls |-> Append(c6, "new Identity")]

(***************************************************************************)
(* Identity.generate(alias), lines 735-863, one step of the code per       *)
(* action.  gen is the frame of the call in progress: its position, its    *)
(* locals and the steps it has entered so far.                             *)
(***************************************************************************)
Idle == [pc |-> "idle"]

\* The model follows the first MaxInst identities constructed; a later one
\* is seen through the Result that carries it and then dropped.
Keep(kept, identity) ==
  IF Len(kept) < MaxInst THEN Append(kept, identity) ELSE kept

\* new Date(): the clock is read and moves on, up to the last instant of
\* the model
Tick(clock) == IF clock < MaxClock THEN clock + 1 ELSE clock

With(frame, name, v) == (name :> v) @@ frame

KeyPairs ==
  {[publicKey |-> p, privateKey |-> PrivOf(p)] : p \in FreshPub \cup FaultyPub}
    \cup {[publicKey |-> "a1", privateKey |-> f] : f \in FaultyPriv}

\* @synet/keys generateKeyPair("ed25519", {format: "hex"})
generateKeyPair ==
  {Null, Throw("Key generation failed"), ThrowRaw} \cup {Ok(kp) : kp \in KeyPairs}

Enter(step, next) ==
  [gen EXCEPT !.pc = next, !.steps = Append(@, step)]

\* return Result.fail(...) from inside generate: the frame is dropped
GenReturn(step, result) ==
  /\ gen' = Idle
  /\ out' = [op |-> "generate", alias |-> gen.alias, result |-> result,
             steps |-> Append(gen.steps, step)]
  /\ UNCHANGED <<identities, now>>

GenContinue(frame) ==
  /\ gen' = frame
  /\ UNCHANGED <<identities, out, now>>

\* a step that yields a thrown outcome, a missing value or a value
GenStep(step, next, outcome, isMissing, message, name) ==
  CASE outcome.st = "throw" -> GenReturn(step, Caught(outcome))
    [] outcome.st # "throw" /\ isMissing ->
         GenReturn(step, Caught(Throw(message)))
    [] OTHER -> GenContinue(With(Enter(step, next), name, outcome.v))

\* out holds what the last call returned, until the next call begins
NoOut == [op |-> "none"]

GenerateCall(alias) ==
  /\ gen.pc = "idle"
  /\ gen' = [pc |-> "keypair", alias |-> alias, steps |-> << >>]
  /\ out' = NoOut
  /\ UNCHANGED <<identities, now>>

GenKeyPair ==
  /\ gen.pc = "keypair"
  /\ \E outcome \in generateKeyPair :
       CASE outcome.st = "throw" -> GenReturn("keypair", Caught(outcome))
         [] outcome.st = "null" ->
              GenReturn("keypair", Caught(Throw("Failed to generate key pair")))
         [] OTHER ->
              GenContinue(With(Enter("keypair", "encode"), "keyPair", outcome.v))

GenEncode ==
  /\ gen.pc = "encode"
  /\ LET pub == hexToPem(gen.keyPair.publicKey)
         priv == hexPrivateKeyToPem(gen.keyPair.privateKey)
     IN CASE pub.st = "throw" -> GenReturn("encode", Caught(pub))
          [] pub.st # "throw" /\ priv.st = "throw" ->
               GenReturn("encode", Caught(priv))
          [] pub.st # "throw" /\ priv.st # "throw"
               /\ (pub.st = "null" \/ priv.st = "null") ->
               GenReturn("encode",
                         Caught(Throw("Failed to convert keys to PEM format")))
          [] OTHER ->
               GenContinue(With(With(Enter("encode", "signer"),
                                     "publicKeyPEM", pub.v),
                                "privateKeyPEM", priv.v))

GenSigner ==
  /\ gen.pc = "signer"
  /\ LET signer == SignerCreate(gen.privateKeyPEM, gen.publicKeyPEM)
     IN GenStep("signer", "key", signer, signer.st = "null",
                "Failed to create signer from key pair", "signer")

GenKey ==
  /\ gen.pc = "key"
  /\ LET key == createKey(gen.signer)
     IN GenStep("key", "pubhex", key, key.st = "null",
                "Failed to create key from signer", "key")

\* mutant: the public key hex is not tested for being empty
GenPubHex_Unchecked ==
  /\ gen.pc = "pubhex"
  /\ LET hex == getPublicKeyHex(gen.signer)
     IN GenStep("pubhex", "did", hex, FALSE,
                "Failed to get public key hex", "publicKeyHex")

GenPubHex ==
  /\ gen.pc = "pubhex"
  /\ LET hex == getPublicKeyHex(gen.signer)
     IN GenStep("pubhex", "did", hex, hex.v = "",
                "Failed to get public key hex", "publicKeyHex")

\* mutant: the message of the signer step is reused for the DID step
GenDid_CopiedMessage ==
  /\ gen.pc = "did"
  /\ LET didUnit == DIDCreate(gen.publicKeyHex)
     IN GenStep("did", "didstring", didUnit, didUnit.st = "null",
                "Failed to create signer from key pair", "didUnit")

GenDid ==
  /\ gen.pc = "did"
  /\ LET didUnit == DIDCreate(gen.publicKeyHex)
     IN GenStep("did", "didstring", didUnit, didUnit.st = "null",
                "Failed to create DID from public key", "didUnit")

\* mutant: the step waits for a DID string that is not empty
GenDidString_Waits ==
  /\ gen.pc = "didstring"
  /\ generateKey(gen.didUnit).v # ""
  /\ LET didString == generateKey(gen.didUnit)
     IN GenStep("didstring", "credential", didString, FALSE,
                "Failed to generate DID string", "didString")

GenDidString ==
  /\ gen.pc = "didstring"
  /\ LET didString == generateKey(gen.didUnit)
     IN GenStep("didstring", "credential", didString, didString.v = "",
                "Failed to generate DID string", "didString")

\* Credential.create() and credentialUnit.learn([key.teach()]): the code
\* tests neither for a missing value
GenCredential ==
  /\ gen.pc = "credential"
  /\ GenStep("credential", "issue", CredentialCreate(gen.key), FALSE, "",
             "credentialUnit")

\* mutant: the issuer of the subject is named by the alias
IdentitySubject_AliasIssuer(didString, alias) ==
  [holder |-> [id |-> didString, name |-> alias],
   issuedBy |-> [id |-> alias, name |-> alias]]

IdentitySubject(didString, alias) ==
  [holder |-> [id |-> didString, name |-> alias],
   issuedBy |-> [id |-> didString, name |-> alias]]

\* the call of credentialUnit.issueCredential: generate suspends on it
GenIssue ==
  /\ gen.pc = "issue"
  /\ GenContinue(With(Enter("issue", "await"), "subject",
                      IdentitySubject(gen.didString, gen.alias)))

\* the await resumes with the value or the rejection of the promise
GenAwait ==
  /\ gen.pc = "await"
  /\ \E env \in IssueEnv :
     LET credentialResult ==
           CredentialIssue(gen.credentialUnit, gen.subject,
                           "IdentityCredential", gen.didString, env)
     IN
     CASE credentialResult.st = "throw" ->
            GenReturn("await", Caught(credentialResult))
       [] credentialResult.st = "ok" /\ ~ isSuccess(credentialResult.v) ->
            GenReturn("await",
                      FailMsg("Failed to issue identity credential: "
                                \o errorMessage(credentialResult.v)))
       [] OTHER ->
            GenContinue(With(Enter("await", "assemble"), "credential",
                             credentialResult.v._value))

generateProps(frame, clock) ==
  [dna |-> [id |-> "identity", version |-> "1.0.1"],
   alias |-> frame.alias,
   did |-> frame.didString,
   kid |-> frame.publicKeyHex,
   publicKeyHex |-> frame.publicKeyHex,
   privateKeyHex |-> frame.keyPair.privateKey,
   provider |-> "did:key",
   credential |-> frame.credential,
   metadata |-> {},
   createdAt |-> clock,
   didUnit |-> frame.didUnit,
   signerUnit |-> frame.signer,
   keyUnit |-> frame.key,
   credentialUnit |-> frame.credentialUnit]

\* const props = {...}; const identity = new Identity(props)
GenAssemble ==
  /\ gen.pc = "assemble"
  /\ gen' = With(Enter("assemble", "prepopulate"), "identity",
                 [props |-> generateProps(gen, now),
                  caps |-> NoCaps,
                  origin |-> "generate"])
  /\ now' = Tick(now)
  /\ UNCHANGED <<identities, out>>

\* mutant: the signer's contract is not taught
generateContracts_NoSigner(frame) ==
  <<KeyTeach(frame.key), CredentialTeach(frame.credentialUnit)>>

\* the contracts generate teaches the new identity
generateContracts(frame) ==
  <<SignerTeach(frame.signer), KeyTeach(frame.key),
    CredentialTeach(frame.credentialUnit)>>

\* identity.learn([...]); return Result.success(identity)
GenPrepopulate ==
  /\ gen.pc = "prepopulate"
  /\ \E taught \in BOOLEAN :
     IF ~ taught
       THEN GenReturn("prepopulate", Caught(Throw("Cannot teach")))
       ELSE LET identity == [gen.identity EXCEPT
                               !.caps = learn(@, generateContracts(gen))]
            IN /\ identities' = Keep(identities, identity)
               /\ gen' = Idle
               /\ out' = [op |-> "generate", alias |-> gen.alias,
                          result |-> Success(identity),
                          steps |-> Append(gen.steps, "prepopulate")]
               /\ UNCHANGED now

(***************************************************************************)
(* External teachers: units outside the identity whose teaching contracts  *)
(* it may learn, and what their capabilities return.                       *)
(***************************************************************************)
Teachers == {"mock-signer", "mock-credential"}

TeacherUnitId(t) == IF t = "mock-signer" THEN "signer" ELSE "credential"

TeacherCapabilities(t) ==
  IF t = "mock-signer" THEN {"sign"} ELSE {"issueCredential", "sign"}

TeacherTeach(t) ==
  [unitId |-> TeacherUnitId(t),
   capabilities |-> [c \in TeacherCapabilities(t) |->
                       [kind |-> "external", teacher |-> t]]]

TeacherSign(t, data) == t \o ":" \o data

(***************************************************************************)
(* The delegated operations, lines 966-1023.  The value of a call is how   *)
(* it was dispatched (via), the implementation it invoked, whether it      *)
(* raised, and what it returned.                                           *)
(***************************************************************************)
\* the call of a learned implementation
Invoke(impl, cap, args, env) ==
  CASE impl.kind \in {"signer", "key"} /\ cap = "sign" ->
         Ok(SignerSign(impl.signer, args[1]))
    [] impl.kind \in {"signer", "key"} /\ cap = "verify" ->
         Ok(SignerVerify(impl.signer, args[1], args[2]))
    [] impl.kind = "credential" /\ cap = "issueCredential" ->
         CredentialIssue(impl.credentialUnit, args[1], args[2], args[3], env)
    [] impl.kind = "external" /\ cap = "sign" ->
         Ok(TeacherSign(impl.teacher, args[1]))
    [] impl.kind = "external" /\ cap = "verify" ->
         Ok(args[2] = TeacherSign(impl.teacher, args[1]))
    [] impl.kind = "external" /\ cap = "issueCredential" ->
         CASE env = "throw" -> Throw("Issuer unavailable")
           [] env = "throw-raw" -> ThrowRaw
           [] env = "fail" -> Ok(FailMsg("Issuer refused"))
           [] OTHER -> Ok(Success([issuer |-> args[3], type |-> args[2],
                                   credentialSubject |-> args[1],
                                   proof |-> impl.teacher]))
    [] OTHER -> Throw("Unsupported capability")

Returned(via, invoked, outcome) ==
  IF outcome.st = "throw"
    THEN [via |-> via, invoked |-> invoked, raised |-> TRUE,
          message |-> outcome.message]
    ELSE [via |-> via, invoked |-> invoked, raised |-> FALSE,
          value |-> outcome.v]

\* this.execute(name, ...args)
execute(I, unitId, cap, args, env) ==
  LET impl == I.caps[CapName(unitId, cap)]
  IN Returned("registry", impl, Invoke(impl, cap, args, env))

BoundSigner(I) == [kind |-> "signer", signer |-> I.props.signerUnit]

BoundCredential(I) ==
  [kind |-> "credential", credentialUnit |-> I.props.credentialUnit]

CannotSign ==
  "[identity] Cannot sign - missing 'signer.sign' capability. Learn from: Signer.create().teach()"

\* mutant: the fallback does not test for private-key material
sign_NoKeyTest(I, data) ==
  IF can(I, "signer.sign")
    THEN execute(I, "signer", "sign", <<data>>, "ok")
    ELSE Returned("bound", BoundSigner(I),
                  Ok(SignerSign(I.props.signerUnit, data)))

sign(I, data) ==
  IF can(I, "signer.sign")
    THEN execute(I, "signer", "sign", <<data>>, "ok")
    ELSE IF ~ Falsy(I.props, "privateKeyHex")
      THEN Returned("bound", BoundSigner(I),
                    Ok(SignerSign(I.props.signerUnit, data)))
      ELSE [via |-> "none", raised |-> TRUE, message |-> CannotSign]

\* mutant: verify never consults the registry
verify_BoundOnly(I, data, signature) ==
  Returned("bound", BoundSigner(I),
           Ok(SignerVerify(I.props.signerUnit, data, signature)))

\* mutant: data and signature are handed on in the wrong order
verify_Swapped(I, data, signature) ==
  IF can(I, "signer.verify")
    THEN execute(I, "signer", "verify", <<signature, data>>, "ok")
    ELSE Returned("bound", BoundSigner(I),
                  Ok(SignerVerify(I.props.signerUnit, signature, data)))

verify(I, data, signature) ==
  IF can(I, "signer.verify")
    THEN execute(I, "signer", "verify", <<data, signature>>, "ok")
    ELSE Returned("bound", BoundSigner(I),
                  Ok(SignerVerify(I.props.signerUnit, data, signature)))

issueCredential(I, subject, type, issuer, env) ==
  LET iss == IF issuer = "" THEN I.props.did ELSE issuer IN
  IF can(I, "credential.issueCredential")
    THEN execute(I, "credential", "issueCredential", <<subject, type, iss>>,
                 env)
    ELSE LET result == CredentialIssue(I.props.credentialUnit, subject, type,
                                       iss, env)
         IN IF result.st = "throw"
              THEN Returned("bound", BoundCredential(I), result)
              ELSE IF ~ isSuccess(result.v)
                THEN Returned("bound", BoundCredential(I),
                              Ok(FailMsg(errorMessage(result.v))))
                ELSE Returned("bound", BoundCredential(I),
                              Ok(Success(result.v._value)))

(***************************************************************************)
(* Projections, lines 1160-1213.                                           *)
(***************************************************************************)
DomainFields ==
  {"alias", "did", "kid", "publicKeyHex", "privateKeyHex", "provider",
   "credential", "metadata", "createdAt"}

\* an object literal: a field whose value is undefined is not defined
Pick(props, fields) == [f \in fields \cap DOMAIN props |-> props[f]]

toJSON(I) == Pick(I.props, DomainFields)

\* mutant: the key id is taken from the public key
toDomain_KidFromKey(I) ==
  [f \in DomainFields \cap DOMAIN I.props |->
     IF f = "kid" THEN I.props.publicKeyHex ELSE I.props[f]]

toDomain(I) == Pick(I.props, DomainFields)

\* mutant: nothing is removed
public_Everything(I) == I.props

\* const { privateKeyHex, ...publicData } = this.props; return publicData
public(I) == Pick(I.props, DOMAIN I.props \ {"privateKeyHex"})

present(I) == Pick(I.props, {"did", "publicKeyHex", "credential"})

(***************************************************************************)
(* Getters and teach(), lines 919-944 and 1062-1068.  A taught capability  *)
(* is a closure over the identity: it is named by the identity and by the  *)
(* method of the identity it calls.                                        *)
(***************************************************************************)
getDid(I) == I.props.did

getPublicKey(I) == I.props.publicKeyHex

TaughtCapabilities ==
  {"issueCredential", "sign", "verify", "getDid", "getPublicKey"}

teach(i) ==
  [unitId |-> identities[i].props.dna.id,
   capabilities |-> [c \in TaughtCapabilities |->
                       [kind |-> "identity", inst |-> i, method |-> c]]]

FromRecord(v) == [via |-> "record", raised |-> FALSE, value |-> v]

\* mutant: the taught sign is the signer of the record, not this.sign
InvokeTaught_BoundSign(impl, args, env) ==
  LET I == identities[impl.inst] IN
  CASE impl.method = "sign" ->
         Returned("bound", BoundSigner(I),
                  Ok(SignerSign(I.props.signerUnit, args[1])))
    [] impl.method = "verify" -> verify(I, args[1], args[2])
    [] impl.method = "issueCredential" ->
         issueCredential(I, args[1], args[2], args[3], env)
    [] impl.method = "getDid" -> FromRecord(getDid(I))
    [] OTHER -> FromRecord(getPublicKey(I))

\* the call of a taught capability with positional arguments: the closure
\* calls the method on the identity as it is at the time of the call
InvokeTaught(impl, args, env) ==
  LET I == identities[impl.inst] IN
  CASE impl.method = "sign" -> sign(I, args[1])
    [] impl.method = "verify" -> verify(I, args[1], args[2])
    [] impl.method = "issueCredential" ->
         issueCredential(I, args[1], args[2], args[3], env)
    [] impl.method = "getDid" -> FromRecord(getDid(I))
    [] OTHER -> FromRecord(getPublicKey(I))

(***************************************************************************)
(* Inputs of create: a stored domain record or the sample configuration,   *)
(* as it is or with fields dropped, emptied or replaced by key material    *)
(* the external packages reject.                                           *)
(***************************************************************************)
Optional == {"kid", "provider", "credential", "metadata", "createdAt"}

SampleConfig ==
  [alias |-> "bob", did |-> "did:web:bob", publicKeyHex |-> "b2",
   privateKeyHex |-> "b2-priv", kid |-> "kid-1", provider |-> "did:web",
   credential |-> [issuer |-> "did:web:registrar", type |-> "Membership"],
   metadata |-> {<<"role", "admin">>}, createdAt |-> 7]

CreateFaultyPub ==
  {"pem-throw", "pem-null", "pem-throw-raw", "signer-null", "signer-throw",
   "key-null", "did-null", "did-throw", "credlearn-throw"}

Put(base, f, v) == (f :> v) @@ base

\* every way of dropping or emptying required fields, with and without the
\* optional fields, and every rejected key
Variants(base) ==
  {Pick(Put(Put(Put(Put(base, "alias", a), "did", d), "publicKeyHex", pub),
            "privateKeyHex", priv), DOMAIN base \ D) :
     a \in {"", base.alias}, d \in {"", base.did},
     pub \in {"", base.publicKeyHex}, priv \in {"", base.publicKeyHex \o "-priv"},
     D \in SUBSET Required \cup {Optional, Optional \cup {"did"},
                                 DOMAIN base \ {"alias", "provider"}}}
    \cup {Put(base, "publicKeyHex", f) : f \in CreateFaultyPub}
    \cup {Put(base, "privateKeyHex", f) : f \in FaultyPriv}

\* the stored records and the sample, as they are or without one field
Stored ==
  {SampleConfig} \cup {toDomain(identities[i]) : i \in DOMAIN identities}
    \cup {toJSON(identities[i]) : i \in DOMAIN identities}

Configs ==
  Stored \cup {Pick(base, DOMAIN base \ {"privateKeyHex"}) : base \in Stored}
    \cup {Pick(SampleConfig, DOMAIN SampleConfig \ Optional)}
    \cup {Put(SampleConfig, "publicKeyHex", f) : f \in CreateFaultyPub}
    \cup {Put(SampleConfig, "privateKeyHex", f) : f \in FaultyPriv}

WideConfigs == Variants(SampleConfig)

(***************************************************************************)
(* Actions on constructed identities.  JavaScript runs a call to           *)
(* completion: another call starts only while generate is not running or   *)
(* is suspended on its await.                                              *)
(***************************************************************************)
Quiescent == gen.pc \in {"idle", "await"}

Create(config) ==
  /\ Quiescent
  /\ LET r == create(config, now) IN
       /\ out' = [op |-> "create", config |-> config, result |-> r.result,
                  calls |-> r.calls, built |-> r.built]
       /\ identities' = IF r.built
                          THEN Keep(identities, r.result._value)
                          ELSE identities
       /\ now' = IF r.built /\ "createdAt" \notin DOMAIN config
                   THEN Tick(now) ELSE now
  /\ UNCHANGED gen

\* protected constructor(props), lines 644-646, as a derived unit may call
\* it: IdentityProps declares privateKeyHex optional
DerivedProps ==
  LET full == create(SampleConfig, 7).result._value.props
  IN {Pick(full, DOMAIN full \ {"privateKeyHex"})}

Construct(props) ==
  /\ Quiescent
  /\ Len(identities) < MaxInst
  /\ identities' = Append(identities,
                          [props |-> props, caps |-> NoCaps,
                           origin |-> "derived"])
  /\ out' = [op |-> "construct", inst |-> Len(identities) + 1]
  /\ UNCHANGED <<gen, now>>

\* mutant: the registry is shared by all instances
Learn_SharedRegistry(i, t) ==
  /\ Quiescent
  /\ identities' = [j \in DOMAIN identities |->
                      [identities[j] EXCEPT
                         !.caps = learn(@, <<TeacherTeach(t)>>)]]
  /\ out' = [op |-> "learn", inst |-> i, teacher |-> t]
  /\ UNCHANGED <<gen, now>>

\* mutant: learning notes the teacher in the metadata of the record
Learn_NotesTeacher(i, t) ==
  /\ Quiescent
  /\ identities' = [identities EXCEPT
                      ![i].caps = learn(@, <<TeacherTeach(t)>>),
                      ![i].props.metadata = @ \cup {<<"teacher", t>>}]
  /\ out' = [op |-> "learn", inst |-> i, teacher |-> t]
  /\ UNCHANGED <<gen, now>>

\* identity.learn([contract]) with the contract of an external teacher
Learn(i, t) ==
  /\ Quiescent
  /\ identities' = [identities EXCEPT
                      ![i].caps = learn(@, <<TeacherTeach(t)>>)]
  /\ out' = [op |-> "learn", inst |-> i, teacher |-> t]
  /\ UNCHANGED <<gen, now>>

\* identity.learn([identity.signerUnit().teach()])
LearnSigner(i) ==
  /\ Quiescent
  /\ identities' = [identities EXCEPT
                      ![i].caps =
                        learn(@, <<SignerTeach(identities[i].props.signerUnit)>>)]
  /\ out' = [op |-> "learn", inst |-> i, teacher |-> "signerUnit"]
  /\ UNCHANGED <<gen, now>>

Call(op, i, args, env, r) ==
  /\ Quiescent
  /\ out' = [op |-> op, inst |-> i, args |-> args, env |-> env, r |-> r]
  /\ UNCHANGED <<identities, gen, now>>

Sign(i, data) == Call("sign", i, <<data>>, "ok", sign(identities[i], data))

\* the signatures presented to verify: what sign of the same identity
\* returns for some data, and a forged one
Signatures(i) ==
  {"forged"} \cup
    {sign(identities[i], d).value :
       d \in {e \in Data : ~ sign(identities[i], e).raised}}

Verify(i, data, signature) ==
  Call("verify", i, <<data, signature>>, "ok",
       verify(identities[i], data, signature))

IssueCredential(i, issuer, env) ==
  LET I == identities[i]
      subject == [holder |-> [id |-> I.props.did, name |-> I.props.alias]]
  IN Call("issueCredential", i, <<subject, "TestCredential", issuer>>, env,
          issueCredential(I, subject, "TestCredential", issuer, env))

ToJSON(i) == Call("toJSON", i, << >>, "ok", toJSON(identities[i]))

ToDomain(i) == Call("toDomain", i, << >>, "ok", toDomain(identities[i]))

\* mutant: public() deletes the private key from the record itself
Public_Deletes(i) ==
  /\ Quiescent
  /\ identities' = [identities EXCEPT
                      ![i].props = Pick(@, DOMAIN @ \ {"privateKeyHex"})]
  /\ out' = [op |-> "public", inst |-> i, args |-> << >>, env |-> "ok",
             r |-> public(identities[i])]
  /\ UNCHANGED <<gen, now>>

Public(i) == Call("public", i, << >>, "ok", public(identities[i]))

Present(i) == Call("present", i, << >>, "ok", present(identities[i]))

GetDid(i) == Call("getDid", i, << >>, "ok", FromRecord(getDid(identities[i])))

GetPublicKey(i) ==
  Call("getPublicKey", i, << >>, "ok",
       FromRecord(getPublicKey(identities[i])))

Teach(i) == Call("teach", i, << >>, "ok", teach(i))

\* the arguments a learner passes to the taught capability
TaughtArgs(i, c) ==
  LET I == identities[i]
      subject == [holder |-> [id |-> I.props.did, name |-> I.props.alias]]
  IN CASE c = "sign" -> {<<d>> : d \in Data}
       [] c = "verify" -> {<<d, s>> : d \in Data, s \in Signatures(i)}
       [] c = "issueCredential" ->
            {<<subject, "TestCredential", issuer>> :
               issuer \in {"", "did:web:issuer"}}
       [] OTHER -> {<< >>}

\* a learner of identity.teach() executes the capability c it was taught
ExecuteTaught(i, c, args, env) ==
  /\ Quiescent
  /\ out' = [op |-> "taught", inst |-> i, cap |-> c, args |-> args,
             env |-> env,
             r |-> InvokeTaught(teach(i).capabilities[c], args, env)]
  /\ UNCHANGED <<identities, gen, now>>

(***************************************************************************)
(* Specification.                                                          *)
(***************************************************************************)
Init ==
  /\ identities = << >>
  /\ gen = Idle
  /\ out = NoOut
  /\ now = 0

Generate ==
  \/ \E alias \in Aliases : GenerateCall(alias)
  \/ GenKeyPair
  \/ GenEncode
  \/ GenSigner
  \/ GenKey
  \/ GenPubHex
  \/ GenDid
  \/ GenDidString
  \/ GenCredential
  \/ GenIssue
  \/ GenAwait
  \/ GenAssemble
  \/ GenPrepopulate

Next ==
  \/ Generate
  \/ \E config \in Configs : Create(config)
  \/ \E props \in DerivedProps : Construct(props)
  \/ \E i \in DOMAIN identities, t \in Teachers : Learn(i, t)
  \/ \E i \in DOMAIN identities : LearnSigner(i)
  \/ \E i \in DOMAIN identities, data \in Data : Sign(i, data)
  \/ \E i \in DOMAIN identities, data \in Data :
       \E signature \in Signatures(i) : Verify(i, data, signature)
  \/ \E i \in DOMAIN identities, issuer \in {"", "did:web:issuer"},
        env \in IssueEnv :
       IssueCredential(i, issuer, env)
  \/ \E i \in DOMAIN identities : ToJSON(i)
  \/ \E i \in DOMAIN identities : ToDomain(i)
  \/ \E i \in DOMAIN identities : Public(i)
  \/ \E i \in DOMAIN identities : Present(i)
  \/ \E i \in DOMAIN identities : GetDid(i)
  \/ \E i \in DOMAIN identities : GetPublicKey(i)
  \/ \E i \in DOMAIN identities : Teach(i)
  \/ \E i \in DOMAIN identities, c \in TaughtCapabilities :
       \E args \in TaughtArgs(i, c),
          env \in IF c = "issueCredential" THEN IssueEnv ELSE {"ok"} :
         ExecuteTaught(i, c, args, env)

Spec == Init /\ [][Next]_vars

(***************************************************************************)
(* The Result envelope alone: a Result is made by one of its two factories *)
(* and then read through its getters.                                      *)
(***************************************************************************)
Values == {"v1", "v2", "v3"}
Messages == {"m1", "m2", "m3"}
Causes == {<< >>, <<"e1">>, <<"e2">>}
Contexts == {<< >>, <<"x">>, <<"x", "y">>}
Getters ==
  {"isSuccess", "isFailure", "value", "error", "errorMessage", "errorCause"}

ResultSuccess(v) ==
  /\ out' = [op |-> "success", value |-> v, res |-> Success(v)]
  /\ UNCHANGED <<identities, gen, now>>

ResultFail(message, cause, data) ==
  /\ out' = [op |-> "fail", message |-> message, cause |-> cause,
             data |-> data, res |-> fail(message, cause, data)]
  /\ UNCHANGED <<identities, gen, now>>

Get(g, r) ==
  CASE g = "isSuccess" -> [st |-> "ok", v |-> isSuccess(r)]
    [] g = "isFailure" -> [st |-> "ok", v |-> isFailure(r)]
    [] g = "value" -> value(r)
    [] g = "error" -> error(r)
    [] g = "errorMessage" ->
         IF "_error" \in DOMAIN r THEN [st |-> "ok", v |-> errorMessage(r)]
                                   ELSE [st |-> "null"]
    [] OTHER -> errorCause(r)

ResultGet(g) ==
  /\ "res" \in DOMAIN out
  /\ out' = [op |-> g, res |-> out.res, got |-> Get(g, out.res)]
  /\ UNCHANGED <<identities, gen, now>>

NextResult ==
  \/ \E v \in Values : ResultSuccess(v)
  \/ \E message \in Messages, cause \in Causes, data \in Contexts :
       ResultFail(message, cause, data)
  \/ \E g \in Getters : ResultGet(g)

SpecResult == Init /\ [][NextResult]_vars

(***************************************************************************)
(* Two instances side by side: the first MaxPair identities that create    *)
(* returns are followed, among them one made from the same configuration   *)
(* as another and one made from what toDomain() of another returned.       *)
(***************************************************************************)
KeepPair(kept, identity) ==
  IF Len(kept) < MaxPair THEN Append(kept, identity) ELSE kept

PairConfigs ==
  {SampleConfig} \cup {toDomain(identities[i]) : i \in DOMAIN identities}

PairCreate(config) ==
  /\ Quiescent
  /\ LET r == create(config, now) IN
       /\ out' = [op |-> "create", config |-> config, result |-> r.result,
                  calls |-> r.calls, built |-> r.built]
       /\ identities' = IF r.built
                          THEN KeepPair(identities, r.result._value)
                          ELSE identities
       /\ now' = IF r.built /\ "createdAt" \notin DOMAIN config
                   THEN Tick(now) ELSE now
  /\ UNCHANGED gen

NextPair ==
  \/ Generate
  \/ \E config \in PairConfigs : PairCreate(config)
  \/ \E i \in DOMAIN identities, t \in Teachers : Learn(i, t)
  \/ \E i \in DOMAIN identities : LearnSigner(i)
  \/ \E i \in DOMAIN identities, data \in Data : Sign(i, data)
  \/ \E i \in DOMAIN identities : ToDomain(i)
  \/ \E i \in DOMAIN identities : Public(i)

SpecPair == Init /\ [][NextPair]_vars

\* create alone, over every variant of the sample configuration
NextCreate == \E config \in WideConfigs : Create(config)

SpecCreate == Init /\ [][NextCreate]_vars

(***************************************************************************)
(* Properties.  out is what the last call returned and identities is       *)
(* unchanged since that call, so identities[out.inst] is the identity the  *)
(* call ran on.                                                            *)
(***************************************************************************)
Delegated == {"sign", "verify", "issueCredential"}

Namespaced(op) ==
  IF op = "issueCredential" THEN "credential.issueCredential"
                            ELSE CapName("signer", op)

Bound(I, op) ==
  IF op = "issueCredential" THEN BoundCredential(I) ELSE BoundSigner(I)

\* the arguments the identity hands on: an issuer that was not given is
\* replaced by the DID of the record
Effective(I, op, args) ==
  IF op = "issueCredential" /\ args[3] = ""
    THEN <<args[1], args[2], I.props.did>>
    ELSE args

SignsWith(i, t) ==
  \A d \in Data :
    sign(identities[i], d) =
      [via |-> "registry", invoked |-> [kind |-> "external", teacher |-> t],
       raised |-> FALSE, value |-> TeacherSign(t, d)]

\* C2 as stated: once an identity has learned the replacement sign of an
\* external unit, sign returns the replacement's result ever after.
C2_AsStated ==
  [][\A i \in DOMAIN identities :
       (Learn(i, "mock-signer") \/ SignsWith(i, "mock-signer"))
         => SignsWith(i, "mock-signer")']_vars

\* C2 amended: once an identity has learned the replacement sign of an
\* external unit, sign returns the replacement's result and the bound
\* signer is not invoked, until the identity learns another contract that
\* offers sign under the signer namespace.
C2_ReplacementUntilRelearned ==
  [][\A i \in DOMAIN identities :
       (Learn(i, "mock-signer")
          \/ (SignsWith(i, "mock-signer") /\ ~ LearnSigner(i)))
         => SignsWith(i, "mock-signer")']_vars

\* a generated identity, which had learned signer.sign, signs with the
\* external replacement
C2_Witness ==
  /\ out.op = "sign"
  /\ identities[out.inst].origin = "generate"
  /\ ~ out.r.raised
  /\ out.r.via = "registry"
  /\ out.r.value = TeacherSign("mock-signer", out.args[1])

MissingRequired(config) ==
  {f \in Required : f \notin DOMAIN config \/ config[f] = ""}

\* C3: create fails whenever a required field is absent or empty, and then
\* it has made no call and built no Identity; when the four are present and
\* non-empty the gate is passed and the key conversion is reached.
C3_ValidationGate ==
  out.op = "create" =>
    IF MissingRequired(out.config) # {}
      THEN /\ isFailure(out.result)
           /\ "_value" \notin DOMAIN out.result
           /\ out.calls = << >>
           /\ ~ out.built
      ELSE /\ out.calls # << >>
           /\ Head(out.calls) = "hexPrivateKeyToPem"

\* create of a configuration whose only flaw is an empty alias
C3_Witness ==
  /\ out.op = "create"
  /\ MissingRequired(out.config) = {"alias"}
  /\ isFailure(out.result)
  /\ out.calls = << >>

StepOrder ==
  <<"keypair", "encode", "signer", "key", "pubhex", "did", "didstring",
    "credential", "issue", "await", "assemble", "prepopulate">>

\* the step has succeeded on the frame: its product is the one the step
\* yields on what precedes it
Passed(step, frame) ==
  CASE step = "keypair" -> Ok(frame.keyPair) \in generateKeyPair
    [] step = "encode" ->
         /\ hexToPem(frame.keyPair.publicKey) = Ok(frame.publicKeyPEM)
         /\ hexPrivateKeyToPem(frame.keyPair.privateKey)
              = Ok(frame.privateKeyPEM)
    [] step = "signer" ->
         SignerCreate(frame.privateKeyPEM, frame.publicKeyPEM)
           = Ok(frame.signer)
    [] step = "key" -> createKey(frame.signer) = Ok(frame.key)
    [] step = "pubhex" ->
         /\ getPublicKeyHex(frame.signer) = Ok(frame.publicKeyHex)
         /\ frame.publicKeyHex # ""
    [] step = "did" -> DIDCreate(frame.publicKeyHex) = Ok(frame.didUnit)
    [] step = "didstring" ->
         /\ generateKey(frame.didUnit) = Ok(frame.didString)
         /\ frame.didString # ""
    [] step = "credential" ->
         CredentialCreate(frame.key) = Ok(frame.credentialUnit)
    [] step = "issue" ->
         frame.subject = IdentitySubject(frame.didString, frame.alias)
    [] step = "await" ->
         CredentialIssue(frame.credentialUnit, frame.subject,
                         "IdentityCredential", frame.didString, "ok")
           = Ok(Success(frame.credential))
    [] step = "assemble" ->
         /\ frame.identity.props
              = generateProps(frame, frame.identity.props.createdAt)
         /\ frame.identity.caps = NoCaps
    [] OTHER -> FALSE

\* the identity is the product of every step of generate(alias)
Built(I, alias) ==
  LET p == I.props IN
  /\ p.alias = alias
  /\ hexToPem(p.publicKeyHex) = Ok(p.signerUnit.publicKeyPEM)
  /\ hexPrivateKeyToPem(p.privateKeyHex) = Ok(p.signerUnit.privateKeyPEM)
  /\ SignerCreate(p.signerUnit.privateKeyPEM, p.signerUnit.publicKeyPEM)
       = Ok(p.signerUnit)
  /\ createKey(p.signerUnit) = Ok(p.keyUnit)
  /\ getPublicKeyHex(p.signerUnit) = Ok(p.publicKeyHex)
  /\ p.publicKeyHex # ""
  /\ DIDCreate(p.publicKeyHex) = Ok(p.didUnit)
  /\ generateKey(p.didUnit) = Ok(p.did)
  /\ p.did # ""
  /\ CredentialCreate(p.keyUnit) = Ok(p.credentialUnit)
  /\ CredentialIssue(p.credentialUnit, IdentitySubject(p.did, alias),
                     "IdentityCredential", p.did, "ok")
       = Ok(Success(p.credential))
  /\ I.caps = learn(NoCaps, <<SignerTeach(p.signerUnit), KeyTeach(p.keyUnit),
                              CredentialTeach(p.credentialUnit)>>)

\* C5: generate runs its steps in the fixed order and reaches a step only
\* when every step before it has succeeded; a call that fails returns a
\* failure without an Identity at the step that failed, and a call that
\* succeeds has run every step and returns the product of all of them.
C5_OrderedAtomic ==
  /\ gen.pc # "idle" =>
       /\ Len(gen.steps) < Len(StepOrder)
       /\ gen.steps = SubSeq(StepOrder, 1, Len(gen.steps))
       /\ gen.pc = StepOrder[Len(gen.steps) + 1]
       /\ \A k \in 1..Len(gen.steps) : Passed(StepOrder[k], gen)
  /\ out.op = "generate" =>
       /\ out.steps # << >>
       /\ out.steps = SubSeq(StepOrder, 1, Len(out.steps))
       /\ IF isSuccess(out.result)
            THEN /\ out.steps = StepOrder
                 /\ Built(out.result._value, out.alias)
            ELSE "_value" \notin DOMAIN out.result

\* generate failed at the DID step, after the five steps before it
C5_Witness ==
  /\ out.op = "generate"
  /\ isFailure(out.result)
  /\ out.steps = SubSeq(StepOrder, 1, 6)
  /\ "_value" \notin DOMAIN out.result

\* the messages of the Errors the external packages throw
ThrownByPackages ==
  {"Invalid public key hex", "Invalid private key hex", "Unsupported key",
   "Invalid DID key", "Cannot learn from key", "Signing failed",
   "Key generation failed", "Cannot teach"}

\* C6: create and generate always return a Result; a failure carries a
\* message, the message and the cause of a thrown Error are that Error's,
\* and a thrown value that is no Error gives "Unknown error occurred".
C6_NeverRaise ==
  out.op \in {"create", "generate"} =>
    /\ "_isSuccess" \in DOMAIN out.result
    /\ isFailure(out.result) =>
         /\ "_error" \in DOMAIN out.result
         /\ errorMessage(out.result) # ""
         /\ errorMessage(out.result) \in ThrownByPackages =>
              /\ "cause" \in DOMAIN out.result._error
              /\ out.result._error.cause = errorMessage(out.result)

\* generate caught a thrown value that is not an Error
C6_Witness ==
  /\ out.op = "generate"
  /\ isFailure(out.result)
  /\ errorMessage(out.result) = "Unknown error occurred"
  /\ "cause" \notin DOMAIN out.result._error

\* C7: create of the domain record of a generated identity succeeds with
\* an Identity of the same did, publicKeyHex and alias.
C7_RoundTrip ==
  \A i \in DOMAIN identities :
    (/\ identities[i].origin = "generate"
     /\ out.op = "create"
     /\ out.config = toDomain(identities[i]))
      => /\ isSuccess(out.result)
         /\ out.result._value.props.did = identities[i].props.did
         /\ out.result._value.props.publicKeyHex
              = identities[i].props.publicKeyHex
         /\ out.result._value.props.alias = identities[i].props.alias

\* C8: what public() and present() return has no privateKeyHex field.
C8_NoPrivateKey ==
  out.op \in {"public", "present"} => "privateKeyHex" \notin DOMAIN out.r

\* public() of an identity whose record holds private-key hex
C8_Witness ==
  /\ out.op = "public"
  /\ "privateKeyHex" \in DOMAIN identities[out.inst].props
  /\ identities[out.inst].props.privateKeyHex # ""
  /\ "privateKeyHex" \notin DOMAIN out.r

\* C9: what public() returns is the domain record without privateKeyHex,
\* and nothing else.
C9_PublicIsDomainRecord ==
  out.op = "public" =>
    out.r = Pick(toDomain(identities[out.inst]),
                 DomainFields \ {"privateKeyHex"})

OwnSigner(I, name) ==
  name \in DOMAIN I.caps => I.caps[name] = BoundSigner(I)

\* what verify of the last call must return by C12: true for the data the
\* signature was made over by sign of the same identity, false for others
SignedThenVerified(I) ==
  /\ ~ out.r.raised
  /\ \A d \in Data :
       /\ ~ sign(I, d).raised
       /\ out.args[2] = sign(I, d).value => out.r.value = (out.args[1] = d)

C13_SelfIssued ==
  (out.op = "generate" /\ isSuccess(out.result)) =>
    LET p == out.result._value.props
        subject == p.credential.credentialSubject
    IN /\ p.credential.issuer = p.did
       /\ p.credential.type = "IdentityCredential"
       /\ subject.holder.id = p.did
       /\ subject.issuedBy.id = p.did
       /\ subject.holder.name = out.alias
       /\ subject.issuedBy.name = out.alias
       /\ p.alias = out.alias

\* generate("alice") returned an identity with its self-issued credential
C13_Witness ==
  /\ out.op = "generate"
  /\ isSuccess(out.result)
  /\ out.alias = "alice"
  /\ out.result._value.props.did = "did:key:a1"
  /\ out.result._value.props.credential.issuer = "did:key:a1"
  /\ out.result._value.props.credential.credentialSubject.holder.name = "alice"

\* the same identity, had generate skipped the pre-population
Bare(I) == [I EXCEPT !.caps = NoCaps]

\* two calls are the same to the caller: both raise the same Error or both
\* return the same value
SameToCaller(r1, r2) ==
  /\ r1.raised = r2.raised
  /\ IF r1.raised THEN r1.message = r2.message ELSE r1.value = r2.value

\* no entry of the registry comes from an external teacher
NoOverride(I) == \A n \in DOMAIN I.caps : I.caps[n].kind # "external"

\* the delegated operations go through the registry to the components of
\* the record and return what the direct calls return
RegistryEquivalent(I) ==
  /\ {"signer.sign", "signer.verify", "credential.issueCredential"}
       \subseteq DOMAIN I.caps
  /\ I.caps["signer.sign"] = BoundSigner(I)
  /\ I.caps["signer.verify"] = BoundSigner(I)
  /\ I.caps["credential.issueCredential"] = BoundCredential(I)
  /\ \A d \in Data :
       /\ sign(I, d).via = "registry"
       /\ SameToCaller(sign(I, d), sign(Bare(I), d))
       /\ \A s \in {"forged"} \cup {sign(I, e).value : e \in Data} :
            /\ verify(I, d, s).via = "registry"
            /\ SameToCaller(verify(I, d, s), verify(Bare(I), d, s))
  /\ \A issuer \in {"", "did:web:issuer"}, env \in IssueEnv :
       LET subject == [holder |-> [id |-> I.props.did, name |-> I.props.alias]]
           r == issueCredential(I, subject, "TestCredential", issuer, env)
       IN /\ r.via = "registry"
          /\ SameToCaller(r, issueCredential(Bare(I), subject,
                                             "TestCredential", issuer, env))

RecordFields ==
  {"alias", "did", "kid", "publicKeyHex", "privateKeyHex", "provider",
   "credential", "metadata", "createdAt"}

\* C15: toDomain() returns every data field of the canonical record with
\* the value the record holds, privateKeyHex when the record has one, and
\* nothing else; toJSON() returns the same fields and values.
C15_Verbatim ==
  out.op \in {"toDomain", "toJSON"} =>
    LET p == identities[out.inst].props
    IN /\ DOMAIN out.r = RecordFields \cap DOMAIN p
       /\ RecordFields \ {"privateKeyHex"} \subseteq DOMAIN out.r
       /\ \A f \in DOMAIN out.r : out.r[f] = p[f]
       /\ out.r = toDomain(identities[out.inst])
       /\ out.r = toJSON(identities[out.inst])

\* toDomain() of an identity created with a key id of its own
C15_Witness ==
  /\ out.op = "toDomain"
  /\ identities[out.inst].props.kid = "kid-1"
  /\ out.r.kid = "kid-1"
  /\ out.r.privateKeyHex = "b2-priv"
  /\ out.r.metadata = {<<"role", "admin">>}
  /\ out.r.createdAt = 7

\* C16: issueCredential never raises: through a learned override or
\* through the bound credential component, it returns a Result, a failure
\* with a message when the issuance fails or throws.
C16_NoRaise ==
  out.op = "issueCredential" =>
    /\ ~ out.r.raised
    /\ "_isSuccess" \in DOMAIN out.r.value
    /\ isFailure(out.r.value) => errorMessage(out.r.value) # ""
    /\ isSuccess(out.r.value) => "_value" \in DOMAIN out.r.value

\* the identity's own operation of the name, on the same arguments
OwnOperation(I, c, args, env) ==
  CASE c = "sign" -> sign(I, args[1])
    [] c = "verify" -> verify(I, args[1], args[2])
    [] c = "issueCredential" ->
         issueCredential(I, args[1], args[2], args[3], env)
    [] c = "getDid" -> [via |-> "record", raised |-> FALSE,
                        value |-> I.props.did]
    [] c = "getPublicKey" -> [via |-> "record", raised |-> FALSE,
                              value |-> I.props.publicKeyHex]

\* C17: teach() returns a contract of unit "identity" whose capabilities
\* are issueCredential, sign, verify, getDid and getPublicKey, and a taught
\* capability returns what the identity's own operation of that name
\* returns in the identity's current state, learned overrides included.
C17_TeachContract ==
  /\ out.op = "teach" =>
       /\ out.r.unitId = "identity"
       /\ DOMAIN out.r.capabilities =
            {"issueCredential", "sign", "verify", "getDid", "getPublicKey"}
  /\ out.op = "taught" =>
       out.r = OwnOperation(identities[out.inst], out.cap, out.args, out.env)

\* the taught sign of an identity that learned an external signer returned
\* the external signer's value
C17_Witness ==
  /\ out.op = "taught"
  /\ out.cap = "sign"
  /\ ~ NoOverride(identities[out.inst])
  /\ ~ out.r.raised
  /\ out.r.value = TeacherSign("mock-signer", out.args[1])

\* C18: a Result is a success or a failure and never both; a success
\* carries its value and no error; a failure carries no value and its
\* message, with the cause and the context data exactly when they were
\* supplied; reading value raises on a failure and returns the value on a
\* success.
C18_ResultStates ==
  "res" \in DOMAIN out =>
    LET r == out.res IN
    /\ isSuccess(r) = ~ isFailure(r)
    /\ isSuccess(r) =>
         /\ "_value" \in DOMAIN r
         /\ "_error" \notin DOMAIN r
         /\ error(r) = [st |-> "null"]
    /\ isFailure(r) =>
         /\ "_value" \notin DOMAIN r
         /\ "message" \in DOMAIN r._error
         /\ DOMAIN r._error \subseteq {"message", "cause", "data"}
    /\ out.op = "success" => isSuccess(r) /\ r._value = out.value
    /\ out.op = "fail" =>
         /\ isFailure(r)
         /\ errorMessage(r) = out.message
         /\ ("cause" \in DOMAIN r._error) = (out.cause # << >>)
         /\ out.cause # << >> => r._error.cause = out.cause[1]
         /\ ("data" \in DOMAIN r._error) = (out.data # << >>)
         /\ out.data # << >> => r._error.data = out.data
         /\ out.cause = << >> /\ out.data = << >> => r = FailMsg(out.message)
         /\ out.cause # << >> /\ out.data = << >>
              => r = FailCause(out.message, out.cause[1])
    /\ out.op = "value" =>
         IF isFailure(r)
           THEN out.got.st = "throw" /\ out.got.isError
           ELSE out.got = [st |-> "ok", v |-> r._value]
    /\ out.op = "isSuccess" => out.got.v = isSuccess(r)
    /\ out.op = "isFailure" => out.got.v = ~ isSuccess(r)

\* value was read on a failure made with a cause and context data
C18_Witness ==
  /\ out.op = "value"
  /\ isFailure(out.res)
  /\ "cause" \in DOMAIN out.res._error
  /\ "data" \in DOMAIN out.res._error
  /\ out.got.st = "throw"

\* C19: in every identity that create or generate returned, the stored
\* DID is the one the DID component derives from the stored public key,
\* and the bound DID handle yields the stored DID.
C19_DidDerivable ==
  \A i \in DOMAIN identities :
    identities[i].origin \in {"create", "generate"} =>
      LET p == identities[i].props
      IN /\ DIDCreate(p.publicKeyHex).st = "ok"
         /\ generateKey(DIDCreate(p.publicKeyHex).v) = Ok(p.did)
         /\ generateKey(p.didUnit) = Ok(p.did)

\* C20: no operation changes the canonical record of an identity: every
\* step leaves every identity in place with the record it had, and learn
\* changes the capability registry only.
C20_RecordImmutable ==
  [][\A i \in DOMAIN identities :
       /\ i \in DOMAIN identities'
       /\ identities'[i].props = identities[i].props
       /\ identities'[i].origin = identities[i].origin
       /\ identities'[i].caps # identities[i].caps
            => \/ LearnSigner(i)
               \/ \E t \in Teachers : Learn(i, t)]_vars

\* an identity created from the sample configuration has learned an
\* external contract and its record is still the configuration
C20_Witness ==
  /\ out.op = "learn"
  /\ out.teacher = "mock-signer"
  /\ identities[out.inst].origin = "create"
  /\ "signer.sign" \in DOMAIN identities[out.inst].caps
  /\ toDomain(identities[out.inst]) = SampleConfig

\* C21: an operation on one instance changes no other instance: in every
\* step each existing instance keeps its record and its registry, except
\* the one instance that the step's learn call was made on, which keeps
\* its record; a new instance is added after the existing ones.
C21_Isolation ==
  [][\A j \in DOMAIN identities :
       /\ j \in DOMAIN identities'
       /\ identities'[j].props = identities[j].props
       /\ identities'[j] # identities[j]
            => (out'.op = "learn" /\ out'.inst = j)]_vars

\* two instances made from the same configuration, of which the first
\* has learned an external signer and the second has learned nothing
C21_Witness ==
  /\ Len(identities) = 2
  /\ identities[1].props = identities[2].props
  /\ toDomain(identities[2]) = SampleConfig
  /\ out.op = "learn"
  /\ out.inst = 1
  /\ "signer.sign" \in DOMAIN identities[1].caps
  /\ identities[2].caps = NoCaps

\* the messages of the Errors a step of generate raises: those of the
\* package it calls and the one generate throws for a missing value
RaisedBy(step) ==
  CASE step = "keypair" ->
         {"Key generation failed", "Failed to generate key pair"}
    [] step = "encode" ->
         {"Invalid public key hex", "Invalid private key hex",
          "Failed to convert keys to PEM format"}
    [] step = "signer" ->
         {"Unsupported key", "Failed to create signer from key pair"}
    [] step = "key" -> {"Failed to create key from signer"}
    [] step = "pubhex" -> {"Failed to get public key hex"}
    [] step = "did" ->
         {"Invalid DID key", "Failed to create DID from public key"}
    [] step = "didstring" -> {"Failed to generate DID string"}
    [] step = "credential" -> {"Cannot learn from key"}
    [] step = "await" -> {"Signing failed"}
    [] step = "prepopulate" -> {"Cannot teach"}
    [] OTHER -> {}

\* the messages of a step that fails without raising an Error: a thrown
\* value that is no Error, and an issuance that returns a failure
FailedQuietly(step) ==
  {"Unknown error occurred"} \cup
    IF step = "await"
      THEN {"Failed to issue identity credential: No signing capability"}
      ELSE {}

\* C22: a failure of generate carries the message of the step at which
\* the call stopped, which is the first step that failed, and never the
\* message of another step; it carries the Error as cause exactly when
\* that step raised an Error.
C22_FirstError ==
  (out.op = "generate" /\ isFailure(out.result)) =>
    LET step == out.steps[Len(out.steps)]
        message == errorMessage(out.result)
    IN /\ out.steps = SubSeq(StepOrder, 1, Len(out.steps))
       /\ message \in RaisedBy(step) \cup FailedQuietly(step)
       /\ \A k \in 1..Len(StepOrder) :
            StepOrder[k] # step => message \notin RaisedBy(StepOrder[k])
       /\ message \in RaisedBy(step) =>
            /\ "cause" \in DOMAIN out.result._error
            /\ out.result._error.cause = message
       /\ message \in FailedQuietly(step) =>
            "cause" \notin DOMAIN out.result._error

\* generate stopped at the issuance, which returned a failure
C22_Witness ==
  /\ out.op = "generate"
  /\ isFailure(out.result)
  /\ out.steps[Len(out.steps)] = "await"
  /\ errorMessage(out.result)
       = "Failed to issue identity credential: No signing capability"
  /\ "cause" \notin DOMAIN out.result._error

\* C23: create issues no credential: the calls it makes are the key
\* conversions and the construction of the components, and the credential
\* of the identity it returns is the one of the configuration, or the
\* empty placeholder when the configuration has none.
C23_NoIssuance ==
  out.op = "create" =>
    /\ \A k \in 1..Len(out.calls) :
         out.calls[k] \in {"hexPrivateKeyToPem", "hexToPem", "Signer.create",
                           "createKey", "DID.create", "Credential.create",
                           "new Identity"}
    /\ isSuccess(out.result) =>
         out.result._value.props.credential =
           IF "credential" \in DOMAIN out.config
             THEN out.config.credential
             ELSE [f \in {} |-> ""]

\* create of a configuration without credential returned an identity with
\* the empty placeholder
C23_Witness ==
  /\ out.op = "create"
  /\ isSuccess(out.result)
  /\ "credential" \notin DOMAIN out.config
  /\ DOMAIN out.result._value.props.credential = {}

\* the fields of the record that C24 names
ConfigDetermined ==
  {"alias", "did", "publicKeyHex", "privateKeyHex", "kid", "provider",
   "metadata"}

Projections == {"toDomain", "toJSON", "public", "present"}

\* what the projection returns on the identity
Projected(op, I) ==
  CASE op = "toDomain" -> toDomain(I)
    [] op = "toJSON" -> toJSON(I)
    [] op = "public" -> public(I)
    [] OTHER -> present(I)

\* C25: a projection call changes neither the record nor the registry of
\* any identity, and what each projection returns on an identity is the
\* same before and after every step, so two calls of the same projection
\* on the same identity return equal values.
C25_ProjectionsPure ==
  [][/\ out'.op \in Projections =>
          /\ identities' = identities
          /\ out'.r = Projected(out'.op, identities[out'.inst])
     /\ \A i \in DOMAIN identities, op \in Projections :
          Projected(op, identities'[i]) = Projected(op, identities[i])]_vars

\* public() was called on a created identity that has learned a contract
\* and still holds its private key
C25_Witness ==
  /\ out.op = "public"
  /\ identities[out.inst].origin = "create"
  /\ identities[out.inst].caps # NoCaps
  /\ "privateKeyHex" \in DOMAIN identities[out.inst].props
  /\ out.r = public(identities[out.inst])

\* Scheduling: the synchronous steps of generate run one after the other
\* without yielding, and the await resumes once the promise of the
\* issuance is settled.
GenerateRuns ==
  \/ GenKeyPair
  \/ GenEncode
  \/ GenSigner
  \/ GenKey
  \/ GenPubHex
  \/ GenDid
  \/ GenDidString
  \/ GenCredential
  \/ GenIssue
  \/ GenAwait
  \/ GenAssemble
  \/ GenPrepopulate

\* generate next to the operations that may run while it is suspended
NextLive ==
  \/ Generate
  \/ \E config \in Configs : Create(config)
  \/ \E i \in DOMAIN identities, t \in Teachers : Learn(i, t)
  \/ \E i \in DOMAIN identities : LearnSigner(i)
  \/ \E i \in DOMAIN identities : ToDomain(i)
  \/ \E i \in DOMAIN identities : Present(i)

\* every step of generate moves gen.pc, the position of the call
SpecLive == Init /\ [][NextLive]_vars /\ WF_<<gen.pc>>(GenerateRuns)

\* C26: a call of generate that has begun completes, and the step that
\* completes it returns one Result, a success or a failure.
C26_Completes ==
  /\ [][(gen.pc # "idle" /\ gen'.pc = "idle") =>
          /\ out'.op = "generate"
          /\ out'.alias = gen.alias
          /\ "_isSuccess" \in DOMAIN out'.result]_vars
  /\ (gen.pc # "idle") ~> (gen.pc = "idle" /\ out.op = "generate")

\* generate has completed with a success after all its steps
C26_Witness ==
  /\ gen.pc = "idle"
  /\ out.op = "generate"
  /\ Len(out.steps) = Len(StepOrder)
  /\ isSuccess(out.result)

====
